---- MODULE Spec2Model ----
(***************************************************************************)
(* Surface-nets mesh extraction over a sampled signed distance field.      *)
(*                                                                         *)
(* Three specifications over one set of variables:                         *)
(*   Spec       getGeometryData: the sweep over the dual cells of a field  *)
(*   SpecField  DistanceField: constructor, drawDistanceFunction, draw     *)
(*   SpecTable  the module-level loop that fills edgeBitFields             *)
(*                                                                         *)
(* Arrays are functions over 0..n-1, as in the source.  A JavaScript       *)
(* number that may also be undefined is a tuple: <<n>> is the number n and *)
(* <<>> is undefined.                                                      *)
(***************************************************************************)
EXTENDS Integers, Sequences, FiniteSets, TLC

VARIABLES
  pc,             \* position of the running program
  distanceField,  \* the DistanceField object: width, height, depth, data
  i,              \* getGeometryData: loop index over the dual cells
  vertices,       \* getGeometryData: flat list of floats pushed so far
  gridIndices,    \* getGeometryData: sparse array, cell index -> vertex number
  indices,        \* getGeometryData: index list pushed so far
  faces,          \* history: every quad built, with the cell and edge it is for
  result,         \* what getGeometryData returned
  field0,         \* history: the field as it was when getGeometryData was called
  calls,          \* history: the set of functions drawn into the field
  before,         \* history: the last function drawn and data just before it
  threw,          \* the constructor ended with a RangeError
  args,           \* history: the arguments the constructor was called with
  edgeBitFields,  \* the edge table, cornerBits -> 12-bit edge mask
  cornerBits      \* loop index of the loop that fills edgeBitFields

vars == <<pc, distanceField, i, vertices, gridIndices, indices, faces, result,
          field0, calls, before, threw, args, edgeBitFields, cornerBits>>

----------------------------------------------------------------------------
(* Bounds of the model *)

\* largest width, height or depth of a field
MaxDim == 3
\* largest number of samples of a field handed to getGeometryData
MaxSamples == 27
\* largest number of samples of a field of which every sign pattern is tried
MaxEnumSamples == 8

----------------------------------------------------------------------------
(* JavaScript arithmetic on the integers the program uses *)

RECURSIVE Pow2(_)
Pow2(n) == IF n <= 0 THEN 1 ELSE 2 * Pow2(n - 1)

\* a << n
Shl(a, n) == a * Pow2(n)

\* a & b, for non-negative operands
RECURSIVE BitAnd(_, _)
BitAnd(a, b) ==
  IF a = 0 \/ b = 0 THEN 0
  ELSE (a % 2) * (b % 2) + 2 * BitAnd(a \div 2, b \div 2)

\* a | b, for non-negative operands
RECURSIVE BitOr(_, _)
BitOr(a, b) ==
  IF a = 0 THEN b
  ELSE IF b = 0 THEN a
  ELSE (IF a % 2 = 1 \/ b % 2 = 1 THEN 1 ELSE 0) + 2 * BitOr(a \div 2, b \div 2)

\* a % b of JavaScript on integers, b # 0: the sign is the dividend's
JsMod(a, b) ==
  LET m == IF b < 0 THEN -b ELSE b
  IN IF a >= 0 THEN a % m ELSE -((-a) % m)

\* (a / b) | 0 on integers, b # 0: the quotient truncated toward zero (every
\* quotient of the model is far below 2^31, where | 0 would wrap)
TruncDiv(a, b) ==
  LET n == IF a >= 0 THEN a ELSE -a
      m == IF b > 0 THEN b ELSE -b
  IN IF (a >= 0) = (b > 0) THEN n \div m ELSE -(n \div m)

\* undefined, and the number n
Undefined == <<>>
Num(n) == <<n>>

----------------------------------------------------------------------------
(* JavaScript numbers that are not integers *)

(* A number of getGeometryData is <<n, k>>, the value n / 2^k in lowest      *)
(* terms.  Every operation rounds its exact result to the nearest number     *)
(* with a significand of Float64Bits bits, as a double does with 53, and a   *)
(* Float32Array element holds Float32Bits bits, as a 32-bit float holds 24.  *)
(* The exponent is unbounded: no value of the model is near the largest or   *)
(* the smallest double.                                                      *)

\* bits of the significand of a double
Float64Bits == 8
\* bits of the significand of a 32-bit float
Float32Bits == 5

\* n / 2^k in lowest terms
RECURSIVE Dyadic(_, _)
Dyadic(n, k) ==
  IF k > 0 /\ n % 2 = 0 THEN Dyadic(n \div 2, k - 1) ELSE <<n, k>>

\* a / b rounded to the nearest integer, to the even one on a tie (a >= 0, b > 0)
RoundHalfEven(a, b) ==
  LET q == a \div b
      r == a - q * b
  IN IF 2 * r < b THEN q
     ELSE IF 2 * r > b THEN q + 1
     ELSE IF q % 2 = 0 THEN q ELSE q + 1

\* a / b * 2^-k rounded to p significant bits (a > 0, b > 0): a / b is scaled
\* into 2^(p-1) <= a / b < 2^p and rounded to an integer there
RECURSIVE RoundScaled(_, _, _, _)
RoundScaled(a, b, k, p) ==
  IF a >= b * Pow2(p) THEN RoundScaled(a, 2 * b, k - 1, p)
  ELSE IF a < b * Pow2(p - 1) THEN RoundScaled(2 * a, b, k + 1, p)
  ELSE LET m == RoundHalfEven(a, b)
       IN IF k >= 0 THEN Dyadic(m, k) ELSE <<m * Pow2(-k), 0>>

\* num / den (den > 0) rounded to p significant bits
RoundTo(num, den, p) ==
  IF num = 0 THEN <<0, 0>>
  ELSE IF num > 0 THEN RoundScaled(num, den, 0, p)
  ELSE LET r == RoundScaled(-num, den, 0, p) IN <<-r[1], r[2]>>

\* the integer n as a number
FlInt(n) == <<n, 0>>

\* a + b, a - b, a * b, a / b (b # 0) of doubles
FlAdd(a, b) ==
  LET K == IF a[2] >= b[2] THEN a[2] ELSE b[2]
  IN RoundTo(a[1] * Pow2(K - a[2]) + b[1] * Pow2(K - b[2]), Pow2(K), Float64Bits)

FlSub(a, b) == FlAdd(a, <<-b[1], b[2]>>)

FlMul(a, b) == RoundTo(a[1] * b[1], Pow2(a[2] + b[2]), Float64Bits)

FlDiv(a, b) ==
  LET num == a[1] * Pow2(b[2])
      den == b[1] * Pow2(a[2])
  IN IF den > 0 THEN RoundTo(num, den, Float64Bits)
     ELSE RoundTo(-num, -den, Float64Bits)

\* a <= b
FlLeq(a, b) ==
  LET K == IF a[2] >= b[2] THEN a[2] ELSE b[2]
  IN a[1] * Pow2(K - a[2]) <= b[1] * Pow2(K - b[2])

\* the value an element of a Float32Array takes when the double v is stored
FroundOf(v) == RoundTo(v[1], Pow2(v[2]), Float32Bits)

----------------------------------------------------------------------------
(* The edge table *)

\* cubeEdgeCornerIndices with edge 2 mistyped as (1, 2)
cubeEdgeCornerIndices_Typo ==
  <<  <<0, 1>>, <<0, 2>>, <<1, 2>>, <<2, 3>>,
      <<0, 4>>, <<1, 5>>, <<2, 6>>, <<3, 7>>,
      <<4, 5>>, <<4, 6>>, <<5, 7>>, <<6, 7>>  >>

cubeEdgeCornerIndices ==
  <<  <<0, 1>>, <<0, 2>>, <<1, 3>>, <<2, 3>>,
      <<0, 4>>, <<1, 5>>, <<2, 6>>, <<3, 7>>,
      <<4, 5>>, <<4, 6>>, <<5, 7>>, <<6, 7>>  >>

\* corner pair of edge j, j counted from 0 as in the source
EdgeCorners(j) == cubeEdgeCornerIndices[j + 1]

edgeBitFieldsLength == 256

\* isOnlyOneOfCornerInVolume for edge j of the corner pattern b
IsOnlyOneOfCornerInVolume(b, j) ==
  LET cornerBitsA == Shl(1, EdgeCorners(j)[1])
      cornerBitsB == Shl(1, EdgeCorners(j)[2])
      isCornerInVolumeA == BitAnd(b, cornerBitsA) # 0
      isCornerInVolumeB == BitAnd(b, cornerBitsB) # 0
  IN isCornerInVolumeA # isCornerInVolumeB

\* the inner loop over j: field |= isOnlyOneOfCornerInVolume << j
RECURSIVE EdgeFieldFrom(_, _, _)
EdgeFieldFrom(b, j, field) ==
  IF j >= Len(cubeEdgeCornerIndices) THEN field
  ELSE EdgeFieldFrom(b, j + 1,
         BitOr(field, Shl(IF IsOnlyOneOfCornerInVolume(b, j) THEN 1 ELSE 0, j)))

EdgeBitField(b) == EdgeFieldFrom(b, 0, 0)

\* the table once the loop has ended
EdgeTable == [b \in 0 .. edgeBitFieldsLength - 1 |-> EdgeBitField(b)]

\* a sparse array with entry k set to v
SetEntry(arr, k, v) ==
  [c \in DOMAIN arr \cup {k} |-> IF c = k THEN v ELSE arr[c]]

\* one turn of the outer loop
BuildEdgeEntry ==
  /\ pc = "table"
  /\ cornerBits < edgeBitFieldsLength
  /\ edgeBitFields' = SetEntry(edgeBitFields, cornerBits, EdgeBitField(cornerBits))
  /\ cornerBits' = cornerBits + 1
  /\ UNCHANGED <<pc, distanceField, i, vertices, gridIndices, indices, faces,
                 result, field0, calls, before, threw, args>>

InitTable ==
  /\ pc = "table"
  /\ edgeBitFields = <<>>
  /\ cornerBits = 0
  /\ distanceField = <<>>
  /\ i = 0
  /\ vertices = <<>>
  /\ gridIndices = <<>>
  /\ indices = <<>>
  /\ faces = <<>>
  /\ result = <<>>
  /\ field0 = <<>>
  /\ calls = {}
  /\ before = <<>>
  /\ threw = FALSE
  /\ args = <<>>

NextTable == BuildEdgeEntry

SpecTable == InitTable /\ [][NextTable]_vars

----------------------------------------------------------------------------
(* getGeometryData: one pass over the dual cells *)

geometryElements == 6

\* the (lo, hi) pairs the samples of an extracted field are drawn from:
\* lo <= 0 is inside, hi > 0 is outside
Palettes == { <<-1, 1>>, <<0, 2>> }

gridWidth == distanceField.width - 1
gridHeight == distanceField.height - 1
gridDepth == distanceField.depth - 1
gridVolume == gridWidth * gridHeight * gridDepth

\* x, y, z of the cell with linear index c, as the loop computes them
CellX(c) == JsMod(c, gridWidth)
CellY(c) == JsMod(TruncDiv(c, gridWidth), gridHeight)
CellZ(c) == TruncDiv(c, gridWidth * gridHeight)

\* distanceField.data[k]: undefined outside the array
DataAt(k) ==
  IF k \in DOMAIN distanceField.data THEN Num(distanceField.data[k]) ELSE Undefined

\* IsPositive with >= in place of >
IsPositive_OrZero(v) == v # Undefined /\ v[1] >= 0

\* v > 0 of JavaScript: false for undefined
IsPositive(v) == v # Undefined /\ v[1] > 0

\* index of the sample at corner j of cell c
CornerSampleIndex(c, j) ==
  LET u == j % 2
      v == TruncDiv(j, 2) % 2
      w == TruncDiv(j, 4)
  IN CellX(c) + u
     + (CellY(c) + v) * distanceField.width
     + (CellZ(c) + w) * distanceField.width * distanceField.height

RECURSIVE CornerMaskFrom(_, _, _)
CornerMaskFrom(c, j, mask) ==
  IF j >= 8 THEN mask
  ELSE CornerMaskFrom(c, j + 1,
         IF IsPositive(DataAt(CornerSampleIndex(c, j)))
         THEN BitOr(mask, Shl(1, j)) ELSE mask)

CornerMask(c) == CornerMaskFrom(c, 0, 0)

\* the number of turns of the loop over the edges that reach edgeCount++
EdgeCount(edges) ==
  Cardinality({j \in 0 .. Len(cubeEdgeCornerIndices) - 1 :
                 BitAnd(edges, Shl(1, j)) # 0})

\* cornerMask, edges and edgeCount of cell c
Classify(c) ==
  LET cornerMask == CornerMask(c)
      edges == edgeBitFields[cornerMask]
  IN [cornerMask |-> cornerMask, edges |-> edges, edgeCount |-> EdgeCount(edges)]

\* SkipsCell without the continue on edgeCount === 0
SkipsCell_NoEdgeCount(cl) == cl.cornerMask = 255

\* the two continue statements of the loop body
SkipsCell(cl) == cl.cornerMask = 255 \/ cl.edgeCount = 0

\* g[k] of a sparse array: undefined for a hole, a negative or a too large k
GridIndexAt(g, k) == IF k \in DOMAIN g THEN Num(g[k]) ELSE Undefined

\* QuadLookups with the neighbours taken at +1 in place of -1 along x
QuadLookups_Forward(c, e) ==
  CASE e = 0 -> << c - gridWidth,
                   c - gridWidth - gridWidth * gridHeight,
                   c,
                   c - gridWidth * gridHeight >>
    [] e = 1 -> << c,
                   c - gridWidth * gridHeight,
                   c + 1,
                   c + 1 - gridWidth * gridHeight >>
    [] e = 4 -> << c + 1 - gridWidth,
                   c - gridWidth,
                   c + 1,
                   c >>

\* the four places of gridIndices read for the quad of edge bit e of cell c
QuadLookups(c, e) ==
  CASE e = 0 -> << c - gridWidth,
                   c - gridWidth - gridWidth * gridHeight,
                   c,
                   c - gridWidth * gridHeight >>
    [] e = 1 -> << c,
                   c - gridWidth * gridHeight,
                   c - 1,
                   c - 1 - gridWidth * gridHeight >>
    [] e = 4 -> << c - 1 - gridWidth,
                   c - gridWidth,
                   c - 1,
                   c >>

\* quads of cell c, in the order pushed, read from the sparse array g
Quads(c, edges, g) ==
  LET quad(e) ==
        IF BitAnd(edges, Shl(1, e)) # 0
        THEN << [cell |-> c, edge |-> e, lookups |-> QuadLookups(c, e),
                 quad |-> [k \in 1 .. 4 |-> GridIndexAt(g, QuadLookups(c, e)[k])]] >>
        ELSE << >>
  IN quad(0) \o quad(1) \o quad(4)

\* QuadIndices with the winding of an inside corner 0 whatever cornerMask is
QuadIndices_OneWinding(q, cornerMask) ==
  << q[1], q[2], q[4], q[1], q[4], q[3] >>

\* the six values one quad adds to indices
QuadIndices(q, cornerMask) ==
  IF BitAnd(cornerMask, 1) # 0
  THEN << q[1], q[4], q[2], q[1], q[3], q[4] >>
  ELSE << q[1], q[2], q[4], q[1], q[4], q[3] >>

RECURSIVE PushQuads(_, _, _)
PushQuads(list, quads, cornerMask) ==
  IF quads = << >> THEN list
  ELSE PushQuads(list \o QuadIndices(Head(quads).quad, cornerMask),
                 Tail(quads), cornerMask)

\* x, y, z (0 or 1) of corner c of a cube
CornerOffset(c) == << c % 2, TruncDiv(c, 2) % 2, TruncDiv(TruncDiv(c, 2), 2) >>

\* the sample at corner c of cell cell, as a double
CornerSample(cell, c) == FlInt(distanceField.data[CornerSampleIndex(cell, c)])

\* EdgeTerm with (0 - d1) in place of (0 - d0)
EdgeTerm_FromD1(cell, j, axis) ==
  LET c0 == EdgeCorners(j)[1]
      c1 == EdgeCorners(j)[2]
      d0 == CornerSample(cell, c0)
      d1 == CornerSample(cell, c1)
  IN FlAdd(FlInt(CornerOffset(c0)[axis]),
           FlMul(FlDiv(FlInt(CornerOffset(c1)[axis] - CornerOffset(c0)[axis]),
                       FlSub(d1, d0)),
                 FlSub(FlInt(0), d1)))

\* what crossing edge j of a cell adds to dx (axis 1), dy (2) or dz (3):
\* c0x + ((c1x - c0x) / (d1 - d0)) * (0 - d0)
EdgeTerm(cell, j, axis) ==
  LET c0 == EdgeCorners(j)[1]
      c1 == EdgeCorners(j)[2]
      d0 == CornerSample(cell, c0)
      d1 == CornerSample(cell, c1)
  IN FlAdd(FlInt(CornerOffset(c0)[axis]),
           FlMul(FlDiv(FlInt(CornerOffset(c1)[axis] - CornerOffset(c0)[axis]),
                       FlSub(d1, d0)),
                 FlSub(FlInt(0), d0)))

\* dx, dy or dz when the loop over the edges has ended
RECURSIVE OffsetFrom(_, _, _, _, _)
OffsetFrom(cell, edges, j, axis, sum) ==
  IF j >= Len(cubeEdgeCornerIndices) THEN sum
  ELSE OffsetFrom(cell, edges, j + 1, axis,
         IF BitAnd(edges, Shl(1, j)) # 0
         THEN FlAdd(sum, EdgeTerm(cell, j, axis)) ELSE sum)

\* dx, dy or dz after dx /= edgeCount
Offset(cell, cl, axis) ==
  FlDiv(OffsetFrom(cell, cl.edges, 0, axis, FlInt(0)), FlInt(cl.edgeCount))

\* vx, vy, vz: x + 0.5 + dx, y + 0.5 + dy, z + 0.5 + dz
VertexPosition(cell, cl) ==
  LET half == <<1, 1>>
  IN << FlAdd(FlAdd(FlInt(CellX(cell)), half), Offset(cell, cl, 1)),
        FlAdd(FlAdd(FlInt(CellY(cell)), half), Offset(cell, cl, 2)),
        FlAdd(FlAdd(FlInt(CellZ(cell)), half), Offset(cell, cl, 3)) >>

\* the six floats of the vertex of cell c: the position, then the normal,
\* which is kept as three names
VertexFloats(c) ==
  VertexPosition(c, Classify(c))
    \o << <<c, "nx">>, <<c, "ny">>, <<c, "nz">> >>

\* NextVertexNumber taken to be the linear index of the cell
NextVertexNumber_CellIndex == i

\* NextVertexNumber without the division by geometryElements
NextVertexNumber_FloatCount == Len(vertices)

\* gridIndices[i] = vertices.length / geometryElements
NextVertexNumber == Len(vertices) \div geometryElements

\* FieldAfterCell with the test of corner 0 written as an assignment of 0
FieldAfterCell_Assigns ==
  [distanceField EXCEPT !.data[CornerSampleIndex(i, 0)] = 0]

\* the field after one turn of the loop: the loop body assigns nothing of it
FieldAfterCell == distanceField

\* a turn of the loop that ends at one of its continue statements
SkipCell ==
  /\ pc = "sweep"
  /\ i < gridVolume
  /\ SkipsCell(Classify(i))
  /\ i' = i + 1
  /\ distanceField' = FieldAfterCell
  /\ UNCHANGED <<pc, vertices, gridIndices, indices, faces, result, field0,
                 calls, before, threw, args, edgeBitFields, cornerBits>>

\* a turn of the loop that registers a vertex and pushes the faces of the cell
EmitCell ==
  /\ pc = "sweep"
  /\ i < gridVolume
  /\ LET cl == Classify(i)
         registered == SetEntry(gridIndices, i, NextVertexNumber)
         quads == Quads(i, cl.edges, registered)
     IN /\ ~SkipsCell(cl)
        /\ gridIndices' = registered
        /\ vertices' = vertices \o VertexFloats(i)
        /\ faces' = faces \o quads
        /\ indices' = PushQuads(indices, quads, cl.cornerMask)
  /\ i' = i + 1
  /\ distanceField' = FieldAfterCell
  /\ UNCHANGED <<pc, result, field0, calls, before, threw, args, edgeBitFields,
                 cornerBits>>

\* new Float32Array(list): every element rounded to a 32-bit float
Float32ArrayOf(list) ==
  [k \in 1 .. Len(list) |->
     IF (k - 1) % geometryElements < 3
     THEN FroundOf(list[k]) ELSE <<"fround", list[k]>>]

\* an element of a Uint16Array: undefined becomes NaN and then 0, a
\* non-negative integer is taken modulo 2^16
ToUint16(v) == IF v = Undefined THEN 0 ELSE v[1] % 65536

Uint16ArrayOf(list) == [k \in 1 .. Len(list) |-> ToUint16(list[k])]

\* the loop has ended: return the two typed arrays
Return ==
  /\ pc = "sweep"
  /\ ~(i < gridVolume)
  /\ pc' = "done"
  /\ result' = [vertices |-> Float32ArrayOf(vertices),
                indices |-> Uint16ArrayOf(indices)]
  /\ UNCHANGED <<distanceField, i, vertices, gridIndices, indices, faces, field0,
                 calls, before, threw, args, edgeBitFields, cornerBits>>

\* the shapes a field handed to getGeometryData was drawn from: the planes
\* a*x + b*y + c*z - d and the spheres (x-a)^2 + (y-b)^2 + (z-c)^2 - d, which
\* take integer values at the samples
Shapes ==
  [kind : {"plane"}, a : -1 .. 1, b : -1 .. 1, c : -1 .. 1, d : -1 .. 2]
    \cup [kind : {"sphere"}, a : 0 .. MaxDim - 1, b : 0 .. MaxDim - 1,
          c : 0 .. MaxDim - 1, d : 0 .. 2]

ShapeValue(s, x, y, z) ==
  IF s.kind = "plane"
  THEN s.a * x + s.b * y + s.c * z - s.d
  ELSE (x - s.a) * (x - s.a) + (y - s.b) * (y - s.b) + (z - s.c) * (z - s.c) - s.d

\* the samples of a w x h x d field with the shape s drawn into it
ShapeData(s, w, h, d) ==
  [k \in 0 .. w * h * d - 1 |-> ShapeValue(s, k % w, (k \div w) % h, k \div (w * h))]

\* the dimensions of the fields of at most n samples
Dims(n) ==
  { t \in (1 .. MaxDim) \X (1 .. MaxDim) \X (1 .. MaxDim) : t[1] * t[2] * t[3] <= n }

\* the fields getGeometryData is called with: positive dimensions, and samples
\* that are either any pattern over one palette (small fields) or a shape
InputFields ==
  { [width |-> t[1], height |-> t[2], depth |-> t[3], data |-> ShapeData(s, t[1], t[2], t[3])] :
      t \in Dims(MaxSamples), s \in Shapes }
  \cup
  UNION { { [width |-> t[1], height |-> t[2], depth |-> t[3], data |-> data] :
              data \in [0 .. t[1] * t[2] * t[3] - 1 -> {p[1], p[2]}] } :
          t \in Dims(MaxEnumSamples), p \in Palettes }

\* the edge table is built and getGeometryData has just been entered
Init ==
  /\ pc = "sweep"
  /\ distanceField \in InputFields
  /\ field0 = distanceField
  /\ i = 0
  /\ vertices = << >>
  /\ gridIndices = << >>
  /\ indices = << >>
  /\ faces = << >>
  /\ result = << >>
  /\ calls = {}
  /\ before = << >>
  /\ threw = FALSE
  /\ args = << >>
  /\ edgeBitFields = EdgeTable
  /\ cornerBits = edgeBitFieldsLength

Next == SkipCell \/ EmitCell \/ Return

Spec == Init /\ [][Next]_vars

----------------------------------------------------------------------------
(* The conversion of the index list, on the vertex numbers of a large sweep *)

\* the vertex numbers tried lie within IndexWindow of 2^16
IndexWindow == 6
\* largest gridWidth tried
MaxRowLength == 5

\* the six values pushed for the face of edge bit 4 of cell c, of a sweep over
\* a grid of rows of gridWidth = row cells in which every cell up to c has got
\* a vertex, so that the vertex number of a cell is its linear index (the
\* samples alternate in sign from one z to the next); bit 0 of cornerMask is
\* mask
LargeIndexLists ==
  { QuadIndices(<< Num(c - 1 - row), Num(c - row), Num(c - 1), Num(c) >>, mask) :
      c \in (65536 - IndexWindow) .. (65536 + IndexWindow),
      row \in 2 .. MaxRowLength,
      mask \in {0, 1} }

\* new Uint16Array(indices) of the return statement
ConvertIndices ==
  /\ pc = "convert"
  /\ pc' = "converted"
  /\ result' = [vertices |-> Float32ArrayOf(vertices),
                indices |-> Uint16ArrayOf(indices)]
  /\ UNCHANGED <<distanceField, i, vertices, gridIndices, indices, faces, field0,
                 calls, before, threw, args, edgeBitFields, cornerBits>>

\* the return statement is reached with one of the index lists above; the
\* vertex list and the field, which the conversion does not read, are left out
InitIndices ==
  /\ pc = "convert"
  /\ indices \in LargeIndexLists
  /\ distanceField = << >>
  /\ field0 = << >>
  /\ i = 0
  /\ vertices = << >>
  /\ gridIndices = << >>
  /\ faces = << >>
  /\ result = << >>
  /\ calls = {}
  /\ before = << >>
  /\ threw = FALSE
  /\ args = << >>
  /\ edgeBitFields = EdgeTable
  /\ cornerBits = edgeBitFieldsLength

NextIndices == ConvertIndices

SpecIndices == InitIndices /\ [][NextIndices]_vars

----------------------------------------------------------------------------
(* DistanceField: constructor, drawDistanceFunction, draw *)

(* A number of this part is <<"num", n>>, the integer n counting units of   *)
(* the precision of a double, or Infinity.  A 32-bit float holds fewer bits *)
(* than a double: the numbers a Float32Array can hold are Infinity and the  *)
(* multiples of Float32Step units.                                          *)

\* the number of distinct functions drawn into one field
MaxDraws == 2
\* largest constructor argument
MaxFieldDim == 2
\* units of double precision between two neighbouring 32-bit floats
Float32Step == 4

Infinity == <<"inf">>
Number(n) == <<"num", n>>

\* Math.min(a, b) on numbers that are not NaN and not -Infinity
MathMin(a, b) ==
  IF a = Infinity THEN b
  ELSE IF b = Infinity THEN a
  ELSE IF a[2] <= b[2] THEN a ELSE b

\* the nearest multiple of Float32Step, the even multiple on a tie
RoundToFloat32(n) ==
  LET q == n \div Float32Step
      r == n - q * Float32Step
  IN IF 2 * r < Float32Step THEN q * Float32Step
     ELSE IF 2 * r > Float32Step THEN (q + 1) * Float32Step
     ELSE IF q % 2 = 0 THEN q * Float32Step ELSE (q + 1) * Float32Step

\* the value an element of a Float32Array takes when v is stored
Fround(v) == IF v = Infinity THEN Infinity ELSE Number(RoundToFloat32(v[2]))

\* the implicit functions drawn: f(x, y, z) = 2a*x + 2b*y + 2c*z + d, a
\* plane for every choice of the coefficients
Scenes ==
  [a : {0, 1}, b : {0, -2}, c : {3}, d : {1, 6}]

\* f(x + 0.5, y + 0.5, z + 0.5) for the scene f; x2, y2, z2 are 2x+1, 2y+1, 2z+1
Eval(f, x2, y2, z2) ==
  Number(f.a * x2 + f.b * y2 + f.c * z2 + f.d)

\* a || b of JavaScript on a number or undefined: 0 and undefined are falsy
OrElse(a, b) == IF a = Undefined \/ a = Num(0) THEN b ELSE a

\* new DistanceField(width, height, depth); an omitted argument is undefined
Construct(width, height, depth) ==
  /\ pc = "new"
  /\ args' = <<width, height, depth>>
  /\ LET w == width[1]
         h == OrElse(height, width)[1]
         d == OrElse(depth, width)[1]
         length == w * h * d
     IN IF length < 0
        THEN \* new Float32Array(length) throws a RangeError
             /\ pc' = "thrown"
             /\ threw' = TRUE
             /\ UNCHANGED distanceField
        ELSE /\ pc' = "field"
             /\ distanceField' =
                  [width |-> w, height |-> h, depth |-> d,
                   data |-> [k \in 0 .. length - 1 |-> Infinity]]
             /\ UNCHANGED threw
  /\ UNCHANGED <<i, vertices, gridIndices, indices, faces, result, field0, calls,
                 before, edgeBitFields, cornerBits>>

\* SampleY without the % height
SampleY_NoWrap(k) == TruncDiv(k, distanceField.width)

\* x, y, z of sample k as drawDistanceFunction computes them
SampleX(k) == JsMod(k, distanceField.width)
SampleY(k) == JsMod(TruncDiv(k, distanceField.width), distanceField.height)
SampleZ(k) == TruncDiv(k, distanceField.width * distanceField.height)

\* CombineSample with the sign of the result flipped
CombineSample_Negated(old, v) ==
  LET m == MathMin(old, v) IN IF m = Infinity THEN m ELSE Number(-m[2])

\* data[i] = Math.min(data[i], v), stored in a Float32Array
CombineSample(old, v) == Fround(MathMin(old, v))

\* the history after operation op has drawn f over data; repeat: the call
\* just before this one was the same operation with the same function
Drawn(f, op) ==
  /\ calls' = calls \cup {f}
  /\ before' = [scene |-> f, op |-> op, data |-> distanceField.data,
                repeat |-> (before # << >> /\ before.scene = f /\ before.op = op)]

\* distanceField.drawDistanceFunction(f)
DrawDistanceFunction(f) ==
  /\ pc = "field"
  /\ Cardinality(calls \cup {f}) <= MaxDraws
  /\ distanceField' =
       [distanceField EXCEPT !.data =
          [k \in DOMAIN @ |->
             CombineSample(@[k], Eval(f, 2 * SampleX(k) + 1,
                                         2 * SampleY(k) + 1,
                                         2 * SampleZ(k) + 1))]]
  /\ Drawn(f, "drawDistanceFunction")
  /\ UNCHANGED <<pc, i, vertices, gridIndices, indices, faces, result, field0,
                 threw, args, edgeBitFields, cornerBits>>

\* the (x, y, z) the three loops of draw visit, in order
DrawOrder(width, height, depth) ==
  LET row(y, z) == [x \in 1 .. width |-> <<x - 1, y, z>>]
      rows[y \in 0 .. height] ==
        [z \in 0 .. depth |->
           IF y >= height THEN << >> ELSE row(y, z) \o rows[y + 1][z]]
      slices[z \in 0 .. depth] ==
        IF z >= depth THEN << >> ELSE rows[0][z] \o slices[z + 1]
  IN IF width <= 0 \/ height <= 0 \/ depth <= 0 THEN << >> ELSE slices[0]

\* draw(width, height, depth, data, scene) of distance-field.js
Draw(f) ==
  /\ pc = "field"
  /\ Cardinality(calls \cup {f}) <= MaxDraws
  /\ LET order == DrawOrder(distanceField.width, distanceField.height,
                            distanceField.depth)
     IN distanceField' =
          [distanceField EXCEPT !.data =
             [k \in DOMAIN @ |->
                IF k + 1 <= Len(order)
                THEN CombineSample(@[k], Eval(f, 2 * order[k + 1][1] + 1,
                                               2 * order[k + 1][2] + 1,
                                               2 * order[k + 1][3] + 1))
                ELSE @[k]]]
  /\ Drawn(f, "draw")
  /\ UNCHANGED <<pc, i, vertices, gridIndices, indices, faces, result, field0,
                 threw, args, edgeBitFields, cornerBits>>

\* the values a constructor argument takes
DimArgs == { Num(n) : n \in -1 .. MaxFieldDim }

InitField ==
  /\ pc = "new"
  /\ distanceField = << >>
  /\ calls = {}
  /\ before = << >>
  /\ threw = FALSE
  /\ args = << >>
  /\ i = 0
  /\ vertices = << >>
  /\ gridIndices = << >>
  /\ indices = << >>
  /\ faces = << >>
  /\ result = << >>
  /\ field0 = << >>
  /\ edgeBitFields = EdgeTable
  /\ cornerBits = edgeBitFieldsLength

NextField ==
  \/ \E width \in DimArgs, height \in DimArgs \cup {Undefined},
        depth \in DimArgs \cup {Undefined} : Construct(width, height, depth)
  \/ \E f \in Scenes : DrawDistanceFunction(f)
  \/ \E f \in Scenes : Draw(f)

SpecField == InitField /\ [][NextField]_vars

----------------------------------------------------------------------------
(* The dual grid as the specification describes it *)

\* the cells of the dual grid, by coordinate
GridCells ==
  { t \in (0 .. gridWidth - 1) \X (0 .. gridHeight - 1) \X (0 .. gridDepth - 1) : TRUE }

InGrid(t) == t \in GridCells

\* linear index of a cell, x fastest
Lin(t) == t[1] + t[2] * gridWidth + t[3] * gridWidth * gridHeight

\* the cell with linear index c
CellOf(c) == CHOOSE t \in GridCells : Lin(t) = c

\* the sample at field coordinate (x, y, z)
SampleAt(x, y, z) ==
  distanceField.data[x + y * distanceField.width
                       + z * distanceField.width * distanceField.height]

\* the 8 corner samples of a cell
CornerSamples(t) ==
  { SampleAt(t[1] + u, t[2] + v, t[3] + w) : u \in 0 .. 1, v \in 0 .. 1, w \in 0 .. 1 }

\* a cell with a sample > 0 and a sample <= 0 among its corners
Mixed(t) ==
  /\ \E s \in CornerSamples(t) : s > 0
  /\ \E s \in CornerSamples(t) : s <= 0

\* the four cells around edge e (0: x, 1: y, 4: z) at corner 0 of cell t, in
\* the order of the quad
SurroundingCells(t, e) ==
  LET x == t[1]
      y == t[2]
      z == t[3]
  IN CASE e = 0 -> << <<x, y - 1, z>>, <<x, y - 1, z - 1>>, <<x, y, z>>, <<x, y, z - 1>> >>
       [] e = 1 -> << <<x, y, z>>, <<x, y, z - 1>>, <<x - 1, y, z>>, <<x - 1, y, z - 1>> >>
       [] e = 4 -> << <<x - 1, y - 1, z>>, <<x, y - 1, z>>, <<x - 1, y, z>>, <<x, y, z>> >>

FaceSet == { faces[k] : k \in 1 .. Len(faces) }

----------------------------------------------------------------------------
(* Claims *)

\* C1: no face is emitted whose four corner cells are not all present in
\* gridIndices: each of the four cells around the edge of an emitted face lies
\* in the dual grid and has a registered vertex.
C1_NoFaceWithMissingCell ==
  \A f \in FaceSet :
    \A k \in 1 .. 4 :
      LET t == SurroundingCells(CellOf(f.cell), f.edge)[k]
      IN InGrid(t) /\ Lin(t) \in DOMAIN gridIndices

\* C2: every value of the returned index array is a vertex number, an integer
\* from 0 to vertices.length / 6 - 1.
C2_IndicesAreVertexNumbers ==
  pc = "done" =>
    \A k \in 1 .. Len(result.indices) :
      result.indices[k] \in 0 .. (Len(result.vertices) \div 6) - 1

\* C2 witness: a returned index array that holds a vertex number above 0 and a
\* value pushed as undefined.
C2_Witness ==
  /\ pc = "done"
  /\ \E k \in 1 .. Len(result.indices) : result.indices[k] >= 1
  /\ \E k \in 1 .. Len(indices) : indices[k] = Undefined

AllSamples(v) == \A k \in DOMAIN distanceField.data : distanceField.data[k] = v

\* C6: a field whose samples are all +1, or all -1, returns an empty mesh.
C6_UniformFieldEmptyMesh ==
  (pc = "done" /\ (AllSamples(1) \/ AllSamples(-1))) =>
    (result.vertices = << >> /\ result.indices = << >>)

\* C6 witness: the sweep of an all -1 field with at least two cells has returned.
C6_Witness ==
  /\ pc = "done"
  /\ AllSamples(-1)
  /\ gridVolume >= 2
  /\ i = gridVolume

\* C8: during the sweep and on return the field equals the field at the call.
C8_FieldUnchanged ==
  pc \in {"sweep", "done"} => distanceField = field0

\* C8 witness: a sweep that registered a vertex and built a face has returned.
C8_Witness ==
  /\ pc = "done"
  /\ Len(vertices) > 0
  /\ Len(faces) > 0

\* the cells the sweep has processed
Processed == { t \in GridCells : Lin(t) < i }

\* C9: each processed mixed cell has exactly one vertex, a processed cell that
\* is not mixed has none, and the number of vertices is the number of mixed
\* cells; on return that is the number of mixed cells of the dual grid.
C9_OneVertexPerMixedCell ==
  /\ pc = "sweep" =>
       /\ \A t \in Processed :
            Cardinality({k \in 1 .. Len(vertices) :
                           k % geometryElements = 4 /\ vertices[k] = <<Lin(t), "nx">>})
              = IF Mixed(t) THEN 1 ELSE 0
       /\ DOMAIN gridIndices = { Lin(t) : t \in {u \in Processed : Mixed(u)} }
       /\ Len(vertices) = 6 * Cardinality({t \in Processed : Mixed(t)})
  /\ pc = "done" =>
       Len(result.vertices) = 6 * Cardinality({t \in GridCells : Mixed(t)})

\* C9 witness: a returned sweep over a grid with mixed cells, an all-outside
\* cell and a cell with a corner sample of exactly 0.
C9_Witness ==
  /\ pc = "done"
  /\ Cardinality({t \in GridCells : Mixed(t)}) >= 2
  /\ \E t \in GridCells : \A s \in CornerSamples(t) : s > 0
  /\ \E t \in GridCells : 0 \in CornerSamples(t)

\* C10: every vertex an emitted face references is the vertex of the cell that
\* geometrically surrounds the edge at that place of the quad; no lookup
\* resolves to a cell of another row or slice.
C10_FacesReferenceSurroundingCells ==
  \A f \in FaceSet :
    \A k \in 1 .. 4 :
      LET t == SurroundingCells(CellOf(f.cell), f.edge)[k]
      IN f.quad[k] # Undefined => (InGrid(t) /\ f.lookups[k] = Lin(t))

----------------------------------------------------------------------------
(* Claims about DistanceField and the edge table *)

\* a constructed field with positive dimensions
ValidField ==
  /\ pc = "field"
  /\ distanceField.width > 0
  /\ distanceField.height > 0
  /\ distanceField.depth > 0

\* the (x, y, z) with 0 <= x < width, 0 <= y < height, 0 <= z < depth and
\* k = x + y*width + z*width*height
PointOf(k) ==
  CHOOSE t \in (0 .. distanceField.width - 1) \X (0 .. distanceField.height - 1)
                 \X (0 .. distanceField.depth - 1) :
    k = t[1] + t[2] * distanceField.width
          + t[3] * distanceField.width * distanceField.height

\* the values of the drawn functions at the centre of voxel k
DrawnValues(k) ==
  LET t == PointOf(k)
  IN { Eval(f, 2 * t[1] + 1, 2 * t[2] + 1, 2 * t[3] + 1)[2] : f \in calls }

\* min(+infinity, f1(p_k), ..., fn(p_k))
ExactMin(k) ==
  LET values == DrawnValues(k)
  IN IF calls = {} THEN Infinity
     ELSE Number(CHOOSE v \in values : \A u \in values : v <= u)

\* a <= b on numbers that may be Infinity
Leq(a, b) == b = Infinity \/ (a # Infinity /\ a[2] <= b[2])

\* C3 as stated: every sample equals min(+infinity, f1(p_i), ..., fn(p_i)).
C3_SamplesAreMinOfDrawn ==
  ValidField =>
    \A k \in DOMAIN distanceField.data : distanceField.data[k] = ExactMin(k)

\* C3 amended: every sample equals min(+infinity, f1(p_i), ..., fn(p_i))
\* rounded to a 32-bit float, whatever the order of the calls, and no call
\* increases a sample.
C3_SamplesAreRoundedMin ==
  ValidField =>
    /\ \A k \in DOMAIN distanceField.data :
         distanceField.data[k] = Fround(ExactMin(k))
    /\ \A k \in DOMAIN distanceField.data :
         distanceField.data[k] # Infinity =>
           distanceField.data[k][2] % Float32Step = 0
    /\ before # << >> =>
         \A k \in DOMAIN distanceField.data :
           Leq(distanceField.data[k], before.data[k])

\* C3 witness: a 2 x 2 x 2 field with two functions drawn, a sample of which
\* holds a rounded value.
C3_Witness ==
  /\ ValidField
  /\ Cardinality(DOMAIN distanceField.data) = 8
  /\ Cardinality(calls) = 2
  /\ \E k \in DOMAIN distanceField.data : distanceField.data[k] # ExactMin(k)

\* C4: drawDistanceFunction(f) called a second time, immediately after
\* drawDistanceFunction(f), leaves every sample unchanged.
C4_DrawTwiceChangesNothing ==
  (pc = "field" /\ before # << >> /\ before.op = "drawDistanceFunction"
     /\ before.repeat) =>
    distanceField.data = before.data

\* C4 witness: a function drawn twice in a row over a field that another
\* function was drawn into before.
C4_Witness ==
  /\ pc = "field"
  /\ before # << >>
  /\ before.op = "drawDistanceFunction"
  /\ before.repeat
  /\ Cardinality(calls) = 2
  /\ \E k \in DOMAIN distanceField.data : distanceField.data[k] # Infinity

\* the edge list of the specification: corner pairs of edges 0 .. 11
EdgeList ==
  << <<0, 1>>, <<0, 2>>, <<1, 3>>, <<2, 3>>, <<0, 4>>, <<1, 5>>,
     <<2, 6>>, <<3, 7>>, <<4, 5>>, <<4, 6>>, <<5, 7>>, <<6, 7>> >>

\* C5: bit j of edgeBitFields[b] is set iff bits c0 and c1 of b differ, for
\* the corner pair (c0, c1) of edge j; no bit above bit 11 is set; the entries
\* of 0x00 and 0xFF are 0.
C5_EdgeTableIsCornerXor ==
  \A b \in DOMAIN edgeBitFields :
    /\ \A j \in 0 .. 11 :
         ((edgeBitFields[b] \div Pow2(j)) % 2 = 1)
           <=> ((b \div Pow2(EdgeList[j + 1][1])) % 2
                  # (b \div Pow2(EdgeList[j + 1][2])) % 2)
    /\ edgeBitFields[b] \in 0 .. 4095
    /\ b \in {0, 255} => edgeBitFields[b] = 0

\* C5 witness: the table is complete, and the entry of the pattern with only
\* corner 0 set has exactly the bits of edges 0, 1 and 4.
C5_Witness ==
  /\ pc = "table"
  /\ cornerBits = 256
  /\ DOMAIN edgeBitFields = 0 .. 255
  /\ edgeBitFields[1] = 19

\* C7: a constructor call with a zero or negative dimension ends in an error,
\* and every field produced has positive dimensions and width*height*depth
\* samples.
C7_InvalidDimensionsRejected ==
  /\ (args # << >> /\ \E k \in 1 .. 3 : args[k] # Undefined /\ args[k][1] <= 0)
       => threw
  /\ pc = "field" =>
       /\ distanceField.width > 0
       /\ distanceField.height > 0
       /\ distanceField.depth > 0
       /\ Cardinality(DOMAIN distanceField.data)
            = distanceField.width * distanceField.height * distanceField.depth

----------------------------------------------------------------------------
(* Claims about faces and the order of the sweep *)

\* corner j (0 .. 7) of the cell with linear index c holds a sample > 0
Outside(c, j) ==
  LET t == CellOf(c)
  IN SampleAt(t[1] + (j % 2), t[2] + ((j \div 2) % 2), t[3] + (j \div 4)) > 0

\* the corner at the other end of edge e (0, 1 or 4) from corner 0
FarCorner(e) == CASE e = 0 -> 1 [] e = 1 -> 2 [] e = 4 -> 4

\* edge e at corner 0 of cell c has one end outside and one end inside
Crossing(c, e) == Outside(c, 0) # Outside(c, FarCorner(e))

\* every entry of the quad of face f is a vertex number, and no two are equal
FullQuad(f) ==
  /\ \A k \in 1 .. 4 : f.quad[k] # Undefined
  /\ Cardinality({ f.quad[k] : k \in 1 .. 4 }) = 4

\* C11: every quad built adds exactly six indices, (v0,v3,v1),(v0,v2,v3) when
\* corner 0 of the cell is outside and (v0,v1,v3),(v0,v3,v2) when it is inside;
\* a processed cell has one face for each crossing edge among 0, 1 and 4 and no
\* other face.
C11_TwoTrianglesPerCrossingEdge ==
  pc \in {"sweep", "done"} =>
    /\ Len(indices) = 6 * Len(faces)
    /\ \A k \in 1 .. Len(faces) :
         LET f == faces[k]
             q == f.quad
         IN /\ f.edge \in {0, 1, 4}
            /\ Crossing(f.cell, f.edge)
            /\ SubSeq(indices, 6 * (k - 1) + 1, 6 * k)
                 = IF Outside(f.cell, 0)
                   THEN << q[1], q[4], q[2], q[1], q[3], q[4] >>
                   ELSE << q[1], q[2], q[4], q[1], q[4], q[3] >>
    /\ \A c \in 0 .. i - 1 :
         \A e \in {0, 1, 4} :
           Cardinality({ k \in 1 .. Len(faces) :
                           faces[k].cell = c /\ faces[k].edge = e })
             = IF Crossing(c, e) THEN 1 ELSE 0
    /\ pc = "done" => Len(result.indices) = 6 * Len(faces)

\* C11 witness: a returned sweep that built a quad of four distinct vertices
\* in a cell whose corner 0 is outside and another in a cell whose corner 0 is
\* inside.
C11_Witness ==
  /\ pc = "done"
  /\ \E k \in 1 .. Len(faces) : FullQuad(faces[k]) /\ Outside(faces[k].cell, 0)
  /\ \E k \in 1 .. Len(faces) : FullQuad(faces[k]) /\ ~Outside(faces[k].cell, 0)

\* the coordinates of cell t along the two axes not aligned with edge e are
\* both >= 1
Interior(t, e) ==
  CASE e = 0 -> t[2] >= 1 /\ t[3] >= 1
    [] e = 1 -> t[1] >= 1 /\ t[3] >= 1
    [] e = 4 -> t[1] >= 1 /\ t[2] >= 1

\* C12: no quad reads an entry of gridIndices above the cell being processed;
\* for a face of a cell whose coordinates along the two axes not aligned with
\* the edge are >= 1, the four places read are the four cells around the edge,
\* three of them with a smaller linear index, and each place held a vertex
\* number when it was read, the number it still holds.
C12_ForwardSweepSuffices ==
  pc \in {"sweep", "done"} =>
    \A f \in FaceSet :
      /\ \A k \in 1 .. 4 : f.lookups[k] <= f.cell
      /\ Interior(CellOf(f.cell), f.edge) =>
           /\ Cardinality({ k \in 1 .. 4 : f.lookups[k] < f.cell }) = 3
           /\ \A k \in 1 .. 4 :
                LET n == Lin(SurroundingCells(CellOf(f.cell), f.edge)[k])
                IN /\ f.lookups[k] = n
                   /\ InGrid(SurroundingCells(CellOf(f.cell), f.edge)[k])
                   /\ n \in DOMAIN gridIndices
                   /\ f.quad[k] = Num(gridIndices[n])

\* C12 witness: a returned sweep with a face of each of the edges 0, 1 and 4
\* in a cell away from the two boundaries the edge is not aligned with.
C12_Witness ==
  /\ pc = "done"
  /\ \A e \in {0, 1, 4} :
       \E f \in FaceSet : f.edge = e /\ Interior(CellOf(f.cell), e)

----------------------------------------------------------------------------
(* Claims about the vertex position *)

\* the axis (1: x, 2: y, 3: z) edge j runs along
EdgeAxis(j) ==
  CHOOSE a \in 1 .. 3 :
    CornerOffset(EdgeList[j + 1][1])[a] # CornerOffset(EdgeList[j + 1][2])[a]

\* the crossing edges of cell c, from the samples at their ends
CrossingEdges(c) ==
  { j \in 0 .. 11 : Outside(c, EdgeList[j + 1][1]) # Outside(c, EdgeList[j + 1][2]) }

\* the samples d0, d1 at the ends of edge j of cell c
EndSamples(c, j) ==
  LET t == CellOf(c)
      at(n) == SampleAt(t[1] + (n % 2), t[2] + ((n \div 2) % 2), t[3] + (n \div 4))
  IN << at(EdgeList[j + 1][1]), at(EdgeList[j + 1][2]) >>

\* 0 <= (0 - d0) / (d1 - d0) <= 1 in exact arithmetic
ExactTInUnit(d0, d1) ==
  IF d1 - d0 > 0 THEN 0 <= 0 - d0 /\ 0 - d0 <= d1 - d0
  ELSE d1 - d0 < 0 /\ d1 - d0 <= 0 - d0 /\ 0 - d0 <= 0

\* lo <= v <= hi
Between(lo, v, hi) == FlLeq(lo, v) /\ FlLeq(v, hi)

\* the position of the vertex of cell c in the list v lies in
\* [x+0.5, x+1.5] x [y+0.5, y+1.5] x [z+0.5, z+1.5]
PositionInsideCell(v, c) ==
  \A a \in 1 .. 3 :
    Between(<<2 * CellOf(c)[a] + 1, 1>>,
            v[geometryElements * gridIndices[c] + a],
            <<2 * CellOf(c)[a] + 3, 1>>)

\* C13: when a cell has got its vertex, the zero-crossing parameter t of each
\* of its crossing edges lies in [0, 1], both exactly and as the code computes
\* it, dx, dy and dz lie in [0, 1], and the position pushed lies in
\* [x+0.5, x+1.5] x [y+0.5, y+1.5] x [z+0.5, z+1.5]; on return every position
\* pushed, and every position returned, lies in the box of its cell.
C13_VertexInsideCell ==
  /\ (pc = "sweep" /\ i - 1 \in DOMAIN gridIndices) =>
       /\ \A j \in CrossingEdges(i - 1) :
            /\ ExactTInUnit(EndSamples(i - 1, j)[1], EndSamples(i - 1, j)[2])
            /\ Between(FlInt(0), EdgeTerm(i - 1, j, EdgeAxis(j)), FlInt(1))
       /\ \A a \in 1 .. 3 :
            Between(FlInt(0), Offset(i - 1, Classify(i - 1), a), FlInt(1))
       /\ PositionInsideCell(vertices, i - 1)
  /\ pc = "done" =>
       \A c \in DOMAIN gridIndices :
         PositionInsideCell(vertices, c) /\ PositionInsideCell(result.vertices, c)

\* t of edge j of cell c as computed differs from (0 - d0) / (d1 - d0)
RoundedT(c, j) ==
  LET d == EndSamples(c, j)
      v == EdgeTerm(c, j, EdgeAxis(j))
  IN v[1] * (d[2] - d[1]) # (0 - d[1]) * Pow2(v[2])

\* C13 witness: a returned sweep with a crossing edge whose t was rounded, a
\* crossing edge with t = 0, one with t = 1, and a vertex strictly inside its
\* cell along x.
C13_Witness ==
  /\ pc = "done"
  /\ \E c \in DOMAIN gridIndices : \E j \in CrossingEdges(c) : RoundedT(c, j)
  /\ \E c \in DOMAIN gridIndices : \E j \in CrossingEdges(c) :
       EdgeTerm(c, j, EdgeAxis(j)) = FlInt(0)
  /\ \E c \in DOMAIN gridIndices : \E j \in CrossingEdges(c) :
       EdgeTerm(c, j, EdgeAxis(j)) = FlInt(1)
  /\ \E c \in DOMAIN gridIndices :
       LET v == result.vertices[geometryElements * gridIndices[c] + 1]
           x == CellOf(c)[1]
       IN ~FlLeq(v, <<2 * x + 1, 1>>) /\ ~FlLeq(<<2 * x + 3, 1>>, v)

----------------------------------------------------------------------------
(* Claims about the vertex list and the index list *)

\* after each cell: vertices holds 6 floats per cell of gridIndices, the
\* vertex numbers are exactly 0 .. n-1 and increase with the linear index, and
\* only processed cells are registered
VerticesMatchGridIndices ==
  pc \in {"sweep", "done"} =>
    LET cells == DOMAIN gridIndices
        n == Cardinality(cells)
    IN /\ Len(vertices) = 6 * n
       /\ { gridIndices[c] : c \in cells } = 0 .. n - 1
       /\ \A c1 \in cells : \A c2 \in cells :
            c1 < c2 => gridIndices[c1] < gridIndices[c2]
       /\ cells \subseteq 0 .. i - 1

\* a step keeps every entry of gridIndices as it is
EntriesKept ==
  \A c \in DOMAIN gridIndices :
    c \in DOMAIN gridIndices' /\ gridIndices'[c] = gridIndices[c]

\* C14: after each cell is processed the vertex list holds exactly 6 floats
\* per registered cell, the registered vertex numbers are exactly 0 .. n-1
\* without duplicates and increase strictly with the linear index of the cell,
\* and no step overwrites or removes an entry.
C14_SweepInvariant ==
  []VerticesMatchGridIndices /\ [][EntriesKept]_vars

\* C14 witness: a returned sweep that registered at least three cells and
\* skipped a cell before a registered one.
C14_Witness ==
  /\ pc = "done"
  /\ Cardinality(DOMAIN gridIndices) >= 3
  /\ \E c \in DOMAIN gridIndices : gridIndices[c] # c

\* C15: every element of the returned index array equals the vertex number
\* pushed at its place of the index list, the gridIndices value of the cell it
\* was emitted for; the conversion to 16-bit unsigned integers changes none.
C15_IndicesStoredWithoutLoss ==
  pc \in {"done", "converted"} =>
    /\ Len(result.indices) = Len(indices)
    /\ \A k \in 1 .. Len(indices) :
         indices[k] # Undefined /\ result.indices[k] = indices[k][1]

====
